---- MODULE Spec2Model ----
(***************************************************************************)
(* Model of steam-appmanifest.py: the SteamAppManifest window, its list    *)
(* store, the filter model over it, and the Refresh / search / toggle /    *)
(* Download handlers.                                                      *)
(*                                                                         *)
(* Strings the handlers inspect character by character (names, search and  *)
(* profile texts) are sequences of one-character strings.  An element's    *)
(* .text is None or a str: it is modelled as a set holding at most one     *)
(* string ({} is None).                                                    *)
(***************************************************************************)
EXTENDS Integers, Sequences, FiniteSets, TLC

VARIABLES
    games_store,     \* Gtk.ListStore(bool, str, str): rows [toggled, app_id, name]
    search_entry,    \* text in the search Gtk.Entry
    search_text,     \* self.search_text
    filtered_store,  \* rows the filter model shows: indices into games_store
    files,           \* the file system: path -> content
    dialogs,         \* messages show_message displayed in the last handler
    requests_get,    \* URLs requests.get was called with in the last handler
    last             \* the last signal delivered, with what the handler read

vars == <<games_store, search_entry, search_text, filtered_store, files,
          dialogs, requests_get, last>>

----------------------------------------------------------------------------
(* Bounds and input sets *)

MaxGames == 2

Whitespace == {" "}

None == {}
Str(s) == {s}

Id10 == <<"1", "0">>
Id20 == <<"2", "0">>
NameAb == <<"A", "b">>
NameB == <<"b">>

Child(tag, text) == [tag |-> tag, text |-> text]

\* <game> elements a response may hold, as the sequence of their children
GameElements ==
    { <<Child("appID", Str(Id10)), Child("name", Str(NameAb))>>,
      <<Child("name", Str(NameB)), Child("appID", Str(Id20))>>,
      <<Child("appID", Str(Id20))>>,
      <<Child("logo", Str(NameB)), Child("name", Str(NameAb))>>,
      <<Child("appID", None), Child("name", Str(NameB))>> }

GameSeqs == UNION { [1..n -> GameElements] : n \in 0..MaxGames }

\* What requests.get and ET.fromstring can make of a request
Responses ==
    { [status |-> "error", wellformed |-> FALSE, games |-> <<>>],
      [status |-> "ok", wellformed |-> FALSE, games |-> <<>>] }
    \cup { [status |-> "ok", wellformed |-> TRUE, games |-> g] : g \in GameSeqs }

ProfileTexts == { <<>>, <<" ">>, <<" ", "m", "e", " ">> }

SearchTexts == { <<>>, <<" ">>, <<"A", " ">> }

Dirs == {"D"}
LibraryPaths == {"D", "missing"}

\* Whether open(manifest_path, 'w') raises OSError
WriteOutcomes == {"ok", "open_fails"}

----------------------------------------------------------------------------
(* str methods *)

RECURSIVE lstrip(_)
lstrip(s) ==
    IF s # <<>> /\ Head(s) \in Whitespace THEN lstrip(Tail(s)) ELSE s

RECURSIVE rstrip(_)
rstrip(s) ==
    IF s # <<>> /\ s[Len(s)] \in Whitespace
    THEN rstrip(SubSeq(s, 1, Len(s) - 1))
    ELSE s

strip(s) == rstrip(lstrip(s))

lower_char(c) ==
    CASE c = "A" -> "a"
      [] c = "B" -> "b"
      [] OTHER -> c

lower(s) == [i \in 1..Len(s) |-> lower_char(s[i])]

\* sub in s
str_in(sub, s) ==
    \E i \in 0..(Len(s) - Len(sub)) : SubSeq(s, i + 1, i + Len(sub)) = sub

----------------------------------------------------------------------------
(* show_message, and the texts it is called with *)

Msg(text) == <<text>>
MsgArg(text, arg) == <<text, arg>>

EnterProfile == Msg("Please enter a profile ID.")
FetchFailed == Msg("Failed to fetch the profile: {e}")
ParseFailed == Msg("Failed to parse the XML: {e}")
InvalidPath == Msg("Please provide a valid Steam library path.")
ManualClicked == Msg("Manual button clicked. Provide instructions here if needed.")
WriteFailed(game_name) == MsgArg("Error creating manifest for {game_name}: {e}", game_name)
Created(count) == MsgArg("Successfully created {created_count} manifest files.", count)

show_message(shown, message) == Append(shown, message)

----------------------------------------------------------------------------
(* The filter model: filtered_store over games_store *)

game_filter_case_sensitive(st, row) ==
    IF st = <<>> THEN TRUE ELSE str_in(st, row.name)

\* game_filter, with self.search_text = st
game_filter(st, row) ==
    IF st = <<>> THEN TRUE ELSE str_in(st, lower(row.name))

RECURSIVE refilter_from(_, _, _)
refilter_from(store, st, i) ==
    IF i > Len(store)
    THEN <<>>
    ELSE (IF game_filter(st, store[i]) THEN <<i>> ELSE <<>>)
         \o refilter_from(store, st, i + 1)

\* filtered_store.refilter(): the visible function is run on every row
refilter(store, st) == refilter_from(store, st, 1)

\* The filter model drops the rows its child model deleted
rows_deleted(filtered, store) == SelectSeq(filtered, LAMBDA i : i <= Len(store))

convert_path_as_child(filtered, path) == path

\* filtered_store.get_iter(path), then convert_iter_to_child_iter
convert_iter_to_child_iter(filtered, path) == filtered[path]

----------------------------------------------------------------------------
(* on_refresh_click *)

profile_id_unstripped(text) == text

profile_id(text) == strip(text)

url(profile) == <<"https://steamcommunity.com/id/", profile, "/games?tab=all&xml=1">>

clear_nothing(store) == store

\* games_store.clear()
clear(store) == <<>>

\* game.find(tag).text if game.find(tag) is not None else None
find_text(game, tag) ==
    LET hits == { i \in 1..Len(game) : game[i].tag = tag }
    IN  IF hits = {}
        THEN None
        ELSE game[CHOOSE i \in hits : \A j \in hits : i <= j].text

has_app_id(app_id, name) == app_id # None /\ app_id # Str(<<>>)

\* if app_id and name
has_both(app_id, name) ==
    /\ app_id # None /\ app_id # Str(<<>>)
    /\ name # None /\ name # Str(<<>>)

str_value(text) == IF text = None THEN <<>> ELSE CHOOSE s \in text : TRUE

new_row(app_id, name) ==
    [toggled |-> FALSE, app_id |-> str_value(app_id), name |-> str_value(name)]

\* for game in games_xml: ... self.games_store.append([False, app_id, name])
RECURSIVE append_games(_, _, _)
append_games(store, games, i) ==
    IF i > Len(games)
    THEN store
    ELSE LET app_id == find_text(games[i], "appID")
             name == find_text(games[i], "name")
         IN  append_games(
                 IF has_both(app_id, name)
                 THEN Append(store, new_row(app_id, name))
                 ELSE store,
                 games, i + 1)

NoResponse == [status |-> "none", wellformed |-> FALSE, games |-> <<>>]

Signal(op, text, response, path, steam_path, outcomes) ==
    [op |-> op, text |-> text, response |-> response, path |-> path,
     steam_path |-> steam_path, outcomes |-> outcomes]

on_refresh_click(text) ==
    LET profile == profile_id(text)
    IN  /\ search_entry' = search_entry
        /\ search_text' = search_text
        /\ files' = files
        /\ IF profile = <<>>
           THEN /\ dialogs' = show_message(<<>>, EnterProfile)
                /\ requests_get' = <<>>
                /\ last' = Signal("refresh", text, NoResponse, 0, "", <<>>)
                /\ UNCHANGED <<games_store, filtered_store>>
           ELSE \E response \in Responses :
                /\ requests_get' = <<url(profile)>>
                /\ last' = Signal("refresh", text, response, 0, "", <<>>)
                /\ IF response.status # "ok"
                   THEN /\ dialogs' = show_message(<<>>, FetchFailed)
                        /\ UNCHANGED <<games_store, filtered_store>>
                   ELSE IF ~response.wellformed
                   THEN /\ games_store' = clear(games_store)
                        /\ filtered_store' = rows_deleted(filtered_store, games_store')
                        /\ dialogs' = show_message(<<>>, ParseFailed)
                   ELSE /\ games_store' =
                               append_games(clear(games_store), response.games, 1)
                        /\ filtered_store' = refilter(games_store', search_text)
                        /\ dialogs' = <<>>

----------------------------------------------------------------------------
(* on_search_changed *)

on_search_changed_visible_only(text) ==
    /\ text # search_entry
    /\ search_entry' = text
    /\ search_text' = lower(strip(text))
    /\ games_store' =
           [i \in 1..Len(refilter(games_store, search_text')) |->
               games_store[refilter(games_store, search_text')[i]]]
    /\ filtered_store' = refilter(games_store', search_text')
    /\ dialogs' = <<>>
    /\ requests_get' = <<>>
    /\ last' = Signal("search", text, NoResponse, 0, "", <<>>)
    /\ UNCHANGED files

\* The "changed" signal of search_entry: the entry now holds text
on_search_changed(text) ==
    /\ text # search_entry
    /\ search_entry' = text
    /\ search_text' = lower(strip(text))
    /\ filtered_store' = refilter(games_store, search_text')
    /\ dialogs' = <<>>
    /\ requests_get' = <<>>
    /\ last' = Signal("search", text, NoResponse, 0, "", <<>>)
    /\ UNCHANGED <<games_store, files>>

----------------------------------------------------------------------------
(* on_toggle_toggled *)

\* The "toggled" signal of the cell renderer, for the row drawn at path
on_toggle_toggled(path) ==
    /\ path \in 1..Len(filtered_store)
    /\ LET real_iter == convert_iter_to_child_iter(filtered_store, path)
           current_state == games_store[real_iter].toggled
       IN  games_store' =
               [games_store EXCEPT ![real_iter].toggled = ~current_state]
    /\ dialogs' = <<>>
    /\ requests_get' = <<>>
    /\ last' = Signal("toggle", <<>>, NoResponse, path, "", <<>>)
    /\ UNCHANGED <<search_entry, search_text, filtered_store, files>>

----------------------------------------------------------------------------
(* on_manual_click *)

on_manual_click ==
    /\ dialogs' = show_message(<<>>, ManualClicked)
    /\ requests_get' = <<>>
    /\ last' = Signal("manual", <<>>, NoResponse, 0, "", <<>>)
    /\ UNCHANGED <<games_store, search_entry, search_text, filtered_store, files>>

----------------------------------------------------------------------------
(* on_download_click *)

STEAM_MANIFEST_TEMPLATE ==
    << <<"\"AppState\"">>,
       <<"{">>,
       <<"    ", "\"AppID\"", "        ", "\"", "{app_id}", "\"">>,
       <<"    ", "\"Universe\"", "      ", "\"", "1", "\"">>,
       <<"    ", "\"name\"", "          ", "\"", "{app_name}", "\"">>,
       <<"    ", "\"StateFlags\"", "    ", "\"", "4", "\"">>,
       <<"    ", "\"installdir\"", "    ", "\"", "{app_name}", "\"">>,
       <<"    ", "\"LastUpdated\"", "   ", "\"", "0", "\"">>,
       <<"    ", "\"UpdateResult\"", "  ", "\"", "0", "\"">>,
       <<"    ", "\"SizeOnDisk\"", "    ", "\"", "0", "\"">>,
       <<"    ", "\"buildid\"", "       ", "\"", "0", "\"">>,
       <<"    ", "\"LastOwner\"", "     ", "\"", "0", "\"">>,
       <<"    ", "\"BytesToDownload\"", "   ", "\"", "0", "\"">>,
       <<"    ", "\"BytesDownloaded\"", "   ", "\"", "0", "\"">>,
       <<"    ", "\"BytesToStage\"", "      ", "\"", "0", "\"">>,
       <<"    ", "\"BytesStaged\"", "       ", "\"", "0", "\"">>,
       <<"}">> >>

\* STEAM_MANIFEST_TEMPLATE.format(app_id=app_id, app_name=app_name)
format(template, app_id, app_name) ==
    [l \in 1..Len(template) |->
        [k \in 1..Len(template[l]) |->
            IF template[l][k] = "{app_id}" THEN app_id
            ELSE IF template[l][k] = "{app_name}" THEN app_name
            ELSE template[l][k]]]

manifest_path_no_extension(steam_path, app_id) ==
    [dir |-> steam_path, file |-> <<"appmanifest_", app_id>>]

\* os.path.join(steam_path, f"appmanifest_{app_id}.acf")
manifest_path(steam_path, app_id) ==
    [dir |-> steam_path, file |-> <<"appmanifest_", app_id, ".acf">>]

any_path(steam_path) == TRUE

\* os.path.isdir(steam_path)
isdir(steam_path) == steam_path \in Dirs

\* with open(manifest_path, 'w', encoding='utf-8') as f: f.write(manifest_content)
write_file(fs, path, content, outcome) ==
    IF outcome = "open_fails"
    THEN fs
    ELSE [p \in DOMAIN fs \cup {path} |-> IF p = path THEN content ELSE fs[p]]

count_every_row(count, outcome) == count + 1

\* created_count += 1, reached only when the with block raised nothing
count_created(count, outcome) == IF outcome = "ok" THEN count + 1 ELSE count

\* for row in self.games_store: ...
RECURSIVE write_rows(_, _, _, _, _)
write_rows(store, i, steam_path, outcomes, acc) ==
    IF i > Len(store)
    THEN acc
    ELSE IF ~store[i].toggled
    THEN write_rows(store, i + 1, steam_path, outcomes, acc)
    ELSE LET manifest_content ==
                 format(STEAM_MANIFEST_TEMPLATE, store[i].app_id, store[i].name)
             path == manifest_path(steam_path, store[i].app_id)
         IN  write_rows(store, i + 1, steam_path, outcomes,
                 [files |-> write_file(acc.files, path, manifest_content, outcomes[i]),
                  created_count |-> count_created(acc.created_count, outcomes[i]),
                  dialogs |-> IF outcomes[i] = "ok"
                              THEN acc.dialogs
                              ELSE show_message(acc.dialogs, WriteFailed(store[i].name))])

\* What open() and write() do for each row the loop writes
Outcomes(store) ==
    { o \in [1..Len(store) -> WriteOutcomes] :
        \A i \in 1..Len(store) : ~store[i].toggled => o[i] = "ok" }

on_download_click(steam_path) ==
    /\ requests_get' = <<>>
    /\ UNCHANGED <<games_store, search_entry, search_text, filtered_store>>
    /\ IF ~isdir(steam_path)
       THEN /\ dialogs' = show_message(<<>>, InvalidPath)
            /\ last' = Signal("download", <<>>, NoResponse, 0, steam_path, <<>>)
            /\ UNCHANGED files
       ELSE \E outcomes \in Outcomes(games_store) :
            LET done == write_rows(games_store, 1, steam_path, outcomes,
                            [files |-> files, created_count |-> 0, dialogs |-> <<>>])
            IN  /\ files' = done.files
                /\ dialogs' = show_message(done.dialogs, Created(done.created_count))
                /\ last' = Signal("download", <<>>, NoResponse, 0, steam_path, outcomes)

----------------------------------------------------------------------------
(* The window *)

Init ==
    /\ games_store = <<>>
    /\ search_entry = <<>>
    /\ search_text = <<>>
    /\ filtered_store = <<>>
    /\ files = << >>
    /\ dialogs = <<>>
    /\ requests_get = <<>>
    /\ last = Signal("init", <<>>, NoResponse, 0, "", <<>>)

Next ==
    \/ \E text \in ProfileTexts : on_refresh_click(text)
    \/ \E text \in SearchTexts : on_search_changed(text)
    \/ \E path \in 1..MaxGames : on_toggle_toggled(path)
    \/ on_manual_click
    \/ \E steam_path \in LibraryPaths : on_download_click(steam_path)

Spec == Init /\ [][Next]_vars

----------------------------------------------------------------------------
(* What the claims speak of, stated without the handlers' helpers *)

\* The rows the tree view draws, top to bottom
VisibleRows == [i \in 1..Len(filtered_store) |-> games_store[filtered_store[i]]]

Fold(c) == IF c \in {"A", "a"} THEN "a" ELSE IF c \in {"B", "b"} THEN "b" ELSE c

\* s is a substring of name, letter case ignored; the empty s is one of any name
ContainsCI(s, name) ==
    \E k \in 0..(Len(name) - Len(s)) :
        \A j \in 1..Len(s) : Fold(name[k + j]) = Fold(s[j])

\* s without its leading and trailing whitespace
Trimmed(s) ==
    LET solid == { i \in 1..Len(s) : s[i] \notin Whitespace }
    IN  IF solid = {}
        THEN <<>>
        ELSE SubSeq(s, CHOOSE i \in solid : \A j \in solid : i <= j,
                       CHOOSE i \in solid : \A j \in solid : i >= j)

Matching(store, s) == SelectSeq(store, LAMBDA row : ContainsCI(s, row.name))

MatchingIndices(store, s) == { k \in 1..Len(store) : ContainsCI(s, store[k].name) }

\* The i-th smallest member of the set of indices S
Nth(S, i) == CHOOSE k \in S : Cardinality({ j \in S : j <= k }) = i

Selected(store) == { k \in 1..Len(store) : store[k].toggled }

RefreshSucceeded(sig) ==
    /\ sig.op = "refresh"
    /\ sig.response.status = "ok"
    /\ sig.response.wellformed

HasText(game, tag) ==
    \E i \in 1..Len(game) : game[i].tag = tag /\ game[i].text \notin {{}, {<<>>}}

TextOf(game, tag) ==
    CHOOSE t \in UNION { game[i].text : i \in { j \in 1..Len(game) : game[j].tag = tag } } : TRUE

Qualifies(game) == HasText(game, "appID") /\ HasText(game, "name")

ExpectedPath(dir, identifier) ==
    [dir |-> dir, file |-> <<"appmanifest_", identifier, ".acf">>]

ExpectedManifest(identifier, displayName) ==
    << <<"\"AppState\"">>,
       <<"{">>,
       <<"    ", "\"AppID\"", "        ", "\"", identifier, "\"">>,
       <<"    ", "\"Universe\"", "      ", "\"", "1", "\"">>,
       <<"    ", "\"name\"", "          ", "\"", displayName, "\"">>,
       <<"    ", "\"StateFlags\"", "    ", "\"", "4", "\"">>,
       <<"    ", "\"installdir\"", "    ", "\"", displayName, "\"">>,
       <<"    ", "\"LastUpdated\"", "   ", "\"", "0", "\"">>,
       <<"    ", "\"UpdateResult\"", "  ", "\"", "0", "\"">>,
       <<"    ", "\"SizeOnDisk\"", "    ", "\"", "0", "\"">>,
       <<"    ", "\"buildid\"", "       ", "\"", "0", "\"">>,
       <<"    ", "\"LastOwner\"", "     ", "\"", "0", "\"">>,
       <<"    ", "\"BytesToDownload\"", "   ", "\"", "0", "\"">>,
       <<"    ", "\"BytesDownloaded\"", "   ", "\"", "0", "\"">>,
       <<"    ", "\"BytesToStage\"", "      ", "\"", "0", "\"">>,
       <<"    ", "\"BytesStaged\"", "       ", "\"", "0", "\"">>,
       <<"}">> >>

----------------------------------------------------------------------------
(* C1 *)

\* C1 as stated: whatever string s the search box holds, the visible rows are
\* exactly the records whose name contains s itself, case-insensitively, in
\* insertion order.
C1_VisibleIsMatchOfEnteredText ==
    VisibleRows = Matching(games_store, search_entry)

\* C1, amended: the visible rows are exactly the records whose name contains
\* the entered string with its leading and trailing whitespace removed,
\* case-insensitively, in insertion order (the empty string matching all).
C1_VisibleIsMatchOfTrimmedText ==
    VisibleRows = Matching(games_store, Trimmed(search_entry))

C1_Witness ==
    /\ last.op = "search"
    /\ Trimmed(search_entry) # <<>>
    /\ Trimmed(search_entry) # search_entry
    /\ Len(filtered_store) >= 1
    /\ Len(filtered_store) < Len(games_store)

----------------------------------------------------------------------------
(* C2 *)

\* C2: a toggle of the row drawn at position i flips `toggled` of exactly the
\* record displayed there (the i-th record matching the filter) and changes
\* nothing else in the batch; a later change of the filter leaves every
\* record as it was, and each row then drawn shows its record's stored flag.
C2_ToggleFlipsTheDisplayedRecord ==
    [][ /\ last'.op = "toggle" =>
              LET k == Nth(MatchingIndices(games_store, Trimmed(search_entry)),
                           last'.path)
              IN  /\ games_store' =
                         [games_store EXCEPT ![k].toggled = ~games_store[k].toggled]
                  /\ VisibleRows'[last'.path] = games_store'[k]
        /\ last'.op = "search" =>
              /\ Len(games_store') = Len(games_store)
              /\ \A i \in 1..Len(filtered_store') :
                     VisibleRows'[i] = games_store[filtered_store'[i]]
              /\ \A k \in Selected(games_store) :
                     ContainsCI(Trimmed(search_entry'), games_store[k].name)
                         => \E i \in 1..Len(filtered_store') :
                                /\ filtered_store'[i] = k
                                /\ VisibleRows'[i].toggled
      ]_vars

C2_Witness ==
    /\ last.op = "toggle"
    /\ search_text # <<>>
    /\ filtered_store[last.path] # last.path
    /\ games_store[filtered_store[last.path]].toggled

----------------------------------------------------------------------------
(* C3 *)

\* C3: a change of the search text leaves the batch as it was: the same
\* records, in the same order, with the same `toggled` flags.
C3_SearchLeavesBatchUnchanged ==
    [][ last'.op = "search" => games_store' = games_store ]_vars

C3_Witness ==
    /\ last.op = "search"
    /\ \E k \in Selected(games_store) :
           \A i \in 1..Len(filtered_store) : filtered_store[i] # k

----------------------------------------------------------------------------
(* C4 *)

\* C4: after a successful refresh the batch holds one record per qualifying
\* element of the response and nothing else, and no record is selected.
C4_RefreshReplacesBatchUnselected ==
    RefreshSucceeded(last) =>
        /\ \A k \in 1..Len(games_store) : ~games_store[k].toggled
        /\ Len(games_store) =
               Cardinality({ i \in 1..Len(last.response.games) :
                               Qualifies(last.response.games[i]) })
        /\ \A k \in 1..Len(games_store) :
               \E i \in 1..Len(last.response.games) :
                   /\ Qualifies(last.response.games[i])
                   /\ games_store[k].app_id = TextOf(last.response.games[i], "appID")
                   /\ games_store[k].name = TextOf(last.response.games[i], "name")

\* A manifest on disk names a game the batch no longer holds: an earlier
\* batch held it, selected.
C4_Witness ==
    /\ RefreshSucceeded(last)
    /\ Len(games_store) >= 1
    /\ \E p \in DOMAIN files :
           \A k \in 1..Len(games_store) :
               p # ExpectedPath(p.dir, games_store[k].app_id)

----------------------------------------------------------------------------
(* C5 *)

\* C5: a refresh that ends in the EmptyInput, NetworkError or ParseError
\* message leaves the batch unchanged.
C5_FailedRefreshLeavesBatch ==
    [][ (last'.op = "refresh" /\ ~RefreshSucceeded(last'))
            => games_store' = games_store ]_vars

----------------------------------------------------------------------------
(* C6 *)

AllWritten(sig) ==
    \A i \in 1..Len(sig.outcomes) : sig.outcomes[i] = "ok"

\* C6: with a valid library directory and no write failing, Download leaves
\* on disk, besides the files already there, exactly one file
\* appmanifest_<identifier>.acf in that directory per identifier of a selected
\* record of the whole batch, each holding the template filled in with a
\* selected record's identifier and name, and reports the number of selected
\* records as the count.
C6_DownloadWritesSelected ==
    [][ (last'.op = "download" /\ last'.steam_path \in Dirs /\ AllWritten(last'))
          => LET dir == last'.steam_path
                 paths == { ExpectedPath(dir, games_store[k].app_id) :
                              k \in Selected(games_store) }
             IN  /\ DOMAIN files' = DOMAIN files \cup paths
                 /\ \A p \in DOMAIN files' \ paths : files'[p] = files[p]
                 /\ \A p \in paths :
                        \E k \in Selected(games_store) :
                            /\ p = ExpectedPath(dir, games_store[k].app_id)
                            /\ files'[p] = ExpectedManifest(games_store[k].app_id,
                                                            games_store[k].name)
                 /\ dialogs' = <<Created(Cardinality(Selected(games_store)))>>
      ]_vars

\* Two selected records with different identifiers, one of them hidden by the
\* filter, both written.
C6_Witness ==
    /\ last.op = "download"
    /\ last.steam_path \in Dirs
    /\ AllWritten(last)
    /\ \E k, m \in Selected(games_store) :
           /\ games_store[k].app_id # games_store[m].app_id
           /\ \A i \in 1..Len(filtered_store) : filtered_store[i] # k
           /\ ExpectedPath(last.steam_path, games_store[k].app_id) \in DOMAIN files
           /\ ExpectedPath(last.steam_path, games_store[m].app_id) \in DOMAIN files

----------------------------------------------------------------------------
(* C7 *)

\* C7: when the library path is not an existing directory, Download shows
\* the invalid-path message alone (no count), and leaves every file and the
\* batch as they were.
C7_InvalidPathWritesNothing ==
    [][ (last'.op = "download" /\ last'.steam_path \notin Dirs)
          => /\ files' = files
             /\ dialogs' = <<InvalidPath>>
             /\ games_store' = games_store
      ]_vars

C7_Witness ==
    /\ last.op = "download"
    /\ last.steam_path \notin Dirs
    /\ Selected(games_store) # {}
    /\ \E k \in Selected(games_store) :
           \A p \in DOMAIN files : p.file # <<"appmanifest_", games_store[k].app_id, ".acf">>

----------------------------------------------------------------------------
(* C8 *)

Failing(store, sig) == { k \in Selected(store) : sig.outcomes[k] # "ok" }

\* The failure messages of the failing records at or after index i, in order
RECURSIVE FailureMessages(_, _, _)
FailureMessages(store, sig, i) ==
    IF i > Len(store)
    THEN <<>>
    ELSE (IF i \in Failing(store, sig) THEN <<WriteFailed(store[i].name)>> ELSE <<>>)
         \o FailureMessages(store, sig, i + 1)

\* C8: after a Download into a valid directory, every selected record whose
\* write did not fail has its manifest on disk, whatever failed before it;
\* one failure message was shown per failing record, naming it, in batch
\* order; and the count reported last is the number of selected records
\* written successfully.
C8_FailureDoesNotAbortBatch ==
    (last.op = "download" /\ last.steam_path \in Dirs) =>
        /\ \A k \in Selected(games_store) \ Failing(games_store, last) :
               LET p == ExpectedPath(last.steam_path, games_store[k].app_id)
               IN  /\ p \in DOMAIN files
                   /\ \E m \in Selected(games_store) \ Failing(games_store, last) :
                          /\ games_store[m].app_id = games_store[k].app_id
                          /\ files[p] = ExpectedManifest(games_store[m].app_id,
                                                         games_store[m].name)
        /\ dialogs =
               Append(FailureMessages(games_store, last, 1),
                      Created(Cardinality(Selected(games_store)
                                              \ Failing(games_store, last))))

\* The first selected record failed, a later one was written
C8_Witness ==
    /\ last.op = "download"
    /\ last.steam_path \in Dirs
    /\ \E k \in Failing(games_store, last) :
           \E m \in Selected(games_store) \ Failing(games_store, last) :
               /\ k < m
               /\ games_store[k].app_id # games_store[m].app_id
               /\ ExpectedPath(last.steam_path, games_store[m].app_id) \in DOMAIN files
               /\ ExpectedPath(last.steam_path, games_store[k].app_id) \notin DOMAIN files
               /\ Len(dialogs) = 2

----------------------------------------------------------------------------
(* C9 *)

\* C9: a Refresh whose profile text is empty once trimmed shows the
\* enter-a-profile message and issues no GET; no GET is ever issued for an
\* empty or whitespace-only identifier.
C9_EmptyProfileSendsNothing ==
    /\ \A i \in 1..Len(requests_get) : Trimmed(requests_get[i][2]) # <<>>
    /\ (last.op = "refresh" /\ Trimmed(last.text) = <<>>) =>
           /\ requests_get = <<>>
           /\ dialogs = <<EnterProfile>>

C9_Witness ==
    /\ last.op = "refresh"
    /\ last.text # <<>>
    /\ Trimmed(last.text) = <<>>
    /\ requests_get = <<>>
    /\ Len(games_store) >= 1

----------------------------------------------------------------------------
(* C10 *)

IdAndName(row) == <<row.app_id, row.name>>

\* C10: after a successful refresh the batch is, in document order, one
\* record for each <game> element that has an <appID> child and a <name>
\* child with non-empty text, carrying those two texts, and none for any
\* other element.
C10_RecordsAreQualifyingElements ==
    RefreshSucceeded(last) =>
        LET kept == SelectSeq(last.response.games, Qualifies)
        IN  [k \in 1..Len(games_store) |-> IdAndName(games_store[k])]
              = [k \in 1..Len(kept) |->
                    <<TextOf(kept[k], "appID"), TextOf(kept[k], "name")>>]

\* One element skipped, then one kept
C10_Witness ==
    /\ RefreshSucceeded(last)
    /\ Len(last.response.games) = 2
    /\ ~Qualifies(last.response.games[1])
    /\ Qualifies(last.response.games[2])
    /\ Len(games_store) = 1

====
